---- MODULE Spec2Model ----
(***************************************************************************)
(* Model of the sync engine of sublime-rsync-ssh (src/rsync_ssh.py):       *)
(* the quick-panel callbacks that start a sync, the RsyncSSH orchestrator  *)
(* thread that expands a scope into Rsync job threads and joins them, and  *)
(* the Rsync job thread with its subprocess phases.                        *)
(*                                                                         *)
(* Strings are sequences of tokens, a token being one character or a word  *)
(* that no operation takes apart ("--dry-run", "--exclude="), so that      *)
(* strip, split, join, replace and the substring test are computed as      *)
(* Python computes them.  Python's None is the empty tuple and a present   *)
(* value x is the one-element tuple <<x>>.                                 *)
(*                                                                         *)
(* All specifications share Next.  Spec varies the platform, the remote    *)
(* mapping, the workspace folders and the arguments of the command;        *)
(* SpecCmd varies the options and the exclude patterns; SpecPaths the      *)
(* workspace folders and the selected paths; SpecTwo follows two runs;     *)
(* SpecFiles gives a run one or two paths; SpecPanels opens the panels on  *)
(* a view that remembers rows.                                             *)
(***************************************************************************)
EXTENDS Integers, Sequences, FiniteSets, TLC

\* ------------------------------------------------------------------ bounds
\* Most destinations configured, over all remote keys.
MaxDest == 2
\* Most workspace folders open in the window.
MaxFolders == 2
\* Most files handed to a run.
MaxFiles == 1

\* ------------------------------------------------------------ Python values
None == <<>>
Some(x) == <<x>>
IsNone(o) == o = <<>>
The(o) == o[1]

Range(s) == {s[i] : i \in 1..Len(s)}

\* os.sep of the platform the editor runs on
os_sep(plat) == IF plat = "windows" THEN "\\" ELSE "/"

\* str.strip(chars) with a single character
RECURSIVE lstrip(_, _)
lstrip(s, c) == IF Len(s) > 0 /\ s[1] = c THEN lstrip(Tail(s), c) ELSE s
RECURSIVE rstrip(_, _)
rstrip(s, c) ==
    IF Len(s) > 0 /\ s[Len(s)] = c THEN rstrip(SubSeq(s, 1, Len(s) - 1), c) ELSE s
strip(s, c) == rstrip(lstrip(s, c), c)

\* s.startswith(p)
startswith(s, p) == Len(p) <= Len(s) /\ SubSeq(s, 1, Len(p)) = p

\* str.split(pat) / re.split of a literal pattern: the pieces between the
\* non-overlapping occurrences of pat, leftmost first; always at least one piece
RECURSIVE splitAcc(_, _, _)
splitAcc(s, pat, cur) ==
    IF Len(s) = 0 THEN <<cur>>
    ELSE IF startswith(s, pat)
         THEN <<cur>> \o splitAcc(SubSeq(s, Len(pat) + 1, Len(s)), pat, <<>>)
         ELSE splitAcc(Tail(s), pat, Append(cur, s[1]))
split(s, pat) == splitAcc(s, pat, <<>>)

\* the element of a one-element set
only(S) == CHOOSE x \in S : TRUE

\* s.split(c, 1): at most one split, at the first occurrence of c
RECURSIVE find(_, _, _)
find(s, c, i) ==
    IF i > Len(s) THEN 0 ELSE IF s[i] = c THEN i ELSE find(s, c, i + 1)
split1(s, c) ==
    LET i == find(s, c, 1)
    IN  IF i = 0 THEN <<s>>
        ELSE <<SubSeq(s, 1, i - 1), SubSeq(s, i + 1, Len(s))>>

\* pat in s
contains(s, pat) ==
    \E i \in 1..(Len(s) - Len(pat) + 1) : SubSeq(s, i, i + Len(pat) - 1) = pat

\* s.replace(pat, by) for a non-empty pat: every non-overlapping occurrence,
\* leftmost first
RECURSIVE replace(_, _, _)
replace(s, pat, by) ==
    IF Len(s) = 0 THEN <<>>
    ELSE IF startswith(s, pat)
         THEN by \o replace(SubSeq(s, Len(pat) + 1, Len(s)), pat, by)
         ELSE <<s[1]>> \o replace(Tail(s), pat, by)

\* posixpath.dirname(p): up to the last slash, its trailing slashes dropped
\* unless nothing else is left
RECURSIVE rfind(_, _, _)
rfind(s, c, i) ==
    IF i = 0 THEN 0 ELSE IF s[i] = c THEN i ELSE rfind(s, c, i - 1)
dirname(p) ==
    only({IF stripped = <<>> THEN SubSeq(p, 1, rfind(p, "/", Len(p))) ELSE stripped :
            stripped \in {rstrip(SubSeq(p, 1, rfind(p, "/", Len(p))), "/")}})

\* sep.join(parts)
RECURSIVE join(_, _)
join(c, parts) ==
    IF Len(parts) = 0 THEN <<>>
    ELSE IF Len(parts) = 1 THEN parts[1]
    ELSE parts[1] \o <<c>> \o join(c, Tail(parts))

\* re.split(os.sep + '|/', key): on POSIX the pattern is "/|/", either branch
\* the separator; on Windows it is "\|/", an escaped bar followed by a slash
re_split_remote(plat, s) ==
    IF plat = "windows" THEN split(s, <<"|", "/">>) ELSE split(s, <<"/">>)

\* os.path.realpath of an absolute path without symbolic links: empty
\* components and trailing separators are dropped
RECURSIVE nonEmpty(_)
nonEmpty(parts) ==
    IF Len(parts) = 0 THEN <<>>
    ELSE IF parts[1] = <<>> THEN nonEmpty(Tail(parts))
    ELSE <<parts[1]>> \o nonEmpty(Tail(parts))
realpath(plat, p) ==
    LET parts == nonEmpty(split(p, <<os_sep(plat)>>))
    IN  IF startswith(p, <<os_sep(plat)>>)
        THEN <<os_sep(plat)>> \o join(os_sep(plat), parts)
        ELSE join(os_sep(plat), parts)

\* ----------------------------------------------------------- path resolver
\* [ realpath(f).strip(os.sep).split(os.sep) for f in window.folders() ]
windowFoldersArrOf(plat, folders) ==
    [i \in 1..Len(folders) |->
        split(strip(realpath(plat, folders[i]), os_sep(plat)), <<os_sep(plat)>>)]

\* the inner loop over the workspace folders for one remote key: every match
\* assigns realRemotePaths[remote] again
RECURSIVE bindRemote(_, _, _, _)
bindRemote(plat, remoteArr, wfArrs, bound) ==
    IF Len(wfArrs) = 0 THEN bound
    ELSE LET wf == wfArrs[1]
             hit == /\ Len(wf) > 0
                    /\ Len(remoteArr) > 0
                    /\ wf[Len(wf)] = remoteArr[1]
             now == IF hit
                    THEN Some(join(os_sep(plat), <<<<>>>> \o wf \o Tail(remoteArr)))
                    ELSE bound
         IN  bindRemote(plat, remoteArr, Tail(wfArrs), now)

\* realRemotePaths as RsyncSSH.__init__ builds it: a function on the bound keys
resolveRemotePaths(plat, keys, folders) ==
    LET arrs == windowFoldersArrOf(plat, folders)
        b(k) == bindRemote(plat, re_split_remote(plat, strip(k, os_sep(plat))), arrs, None)
        dom == {k \in keys : ~IsNone(b(k))}
    IN  [k \in dom |-> The(b(k))]

\* ------------------------------------------------------------ configuration
\* the keys of settings["remotes"]: "a" and "b/c"
Key1 == <<"a">>
Key2 == <<"b", "/", "c">>
RemoteKeys == {Key1, Key2}

\* the workspace folders the window may hold: <sep>h<sep>a and <sep>h<sep>b,
\* written with the platform's separator
WindowFolderPool(plat) ==
    {<<os_sep(plat), "h", os_sep(plat), "a">>,
     <<os_sep(plat), "h", os_sep(plat), "b">>}

\* sequences without repetition of at most n elements of S
RECURSIVE DistinctSeqs(_, _)
DistinctSeqs(S, n) ==
    IF n = 0 THEN {<<>>}
    ELSE LET shorter == DistinctSeqs(S, n - 1)
         IN  shorter \cup
             UNION {{Append(q, x) : x \in S \ Range(q)} :
                        q \in {t \in shorter : Len(t) = n - 1}}

\* the files a run may be given: <sep>h<sep>a<sep>f, a file below the first
\* workspace folder
FilePool(plat) == {<<os_sep(plat), "h", os_sep(plat), "a", os_sep(plat), "f">>}

\* one entry of a remote key's destination list.  "enabled" is "absent" when
\* the key is missing from the destination's dictionary; the pre and post
\* commands are TRUE when a non-empty command string is configured; no
\* destination sets "remote_port".
\* the number that ends the name of the i-th host
hostNumber(i) == <<"1", "2", "3", "4", "5", "6", "7", "8", "9">>[i]

EnabledOf(i) == <<"absent", "false", "true">>[((i - 1) % 3) + 1]
Destination(k, i) ==
    IF k = Key1
    THEN [remote_user |-> <<"u">>,
          remote_host |-> <<"a", hostNumber(i)>>,
          remote_path |-> <<"/", "r">>,
          enabled |-> EnabledOf(i),
          remote_pre_command |-> (i % 2 = 1),
          remote_post_command |-> (i % 3 # 0),
          excludes |-> <<>>,
          options |-> <<>>]
    ELSE [remote_user |-> <<"u">>,
          remote_host |-> <<"b", hostNumber(i)>>,
          remote_path |-> <<"/", "r">>,
          enabled |-> EnabledOf(i + 2),
          remote_pre_command |-> (i % 2 = 1),
          remote_post_command |-> (i % 2 = 0),
          excludes |-> <<>>,
          options |-> <<>>]

\* settings["remotes"] with n1 destinations under "a" and n2 under "b/c"
RemotesOf(n1, n2) ==
    [k \in RemoteKeys |->
        [i \in 1..(IF k = Key1 THEN n1 ELSE n2) |-> Destination(k, i)]]

\* destination.get("enabled", 1) as a truth value
enabled_or_default(destination) == destination.enabled # "false"

\* ------------------------------------------------------------------- state
VARIABLES
    platform,       \* sublime.platform(): "windows" or "linux"
    remotes,        \* settings["remotes"]: remote key -> list of destinations
    windowFolders,  \* view.window().folders()
    status,         \* view status "00000_rsync_ssh_status": 0 is "", n > 0 is
                    \* "Rsyncing to n destination(s)"
    viewSettings,   \* view.settings(): the remembered panel selections
    cmd,            \* the RsyncSshSyncBase command object behind the panels
    panel,          \* the quick panel that is open, and its preselected row
    orch,           \* the RsyncSSH threads, by run
    threads,        \* self.threads of each run: its Rsync threads
    settings,       \* settings["options"] and settings["excludes"]
    fs,             \* the local file system: the paths of its regular files
                    \* and of its directories that the commands can be given
    bindings,       \* the values with which key bindings, menu entries and
                    \* other commands give each argument of rsync_ssh_sync,
                    \* and those they give "destination" without "remote"
    selections      \* the lists of paths the side bar gives as args["paths"]

vars == <<platform, remotes, windowFolders, status, viewSettings, cmd, panel,
          orch, threads, settings, fs, bindings, selections>>
config == <<platform, remotes, windowFolders, settings, fs, bindings, selections>>

\* the runs the model follows
RunIds == DOMAIN orch

\* the orders in which a dictionary with these keys can be iterated
KeyOrders == {q \in DistinctSeqs(RemoteKeys, Cardinality(RemoteKeys)) :
                 Len(q) = Cardinality(RemoteKeys)}

\* a RsyncSSH object that does not exist yet
NoRun ==
    [pc |-> "idle", folder |-> None, destination |-> None, selected |-> None,
     files |-> <<>>, force_sync |-> FALSE, realRemotePaths |-> <<>>,
     todo |-> <<>>, joined |-> 0, reported |-> None, console_done |-> FALSE,
     via |-> "none"]

NoPanel == [kind |-> "none", selected |-> 0]

NoCmd ==
    [identifier |-> "", ignoreObviousRemoteChoice |-> FALSE,
     possibleRemotes |-> <<>>, selectedRemoteKey |-> None, files |-> <<>>,
     raised |-> FALSE]

\* every value of each argument of rsync_ssh_sync within the bounds; without
\* a remote, no destination index or the index of the first row
AllBindings(plat) ==
    [remote |-> {None} \cup {Some(k) : k \in RemoteKeys},
     destination |-> {None} \cup {Some(i) : i \in (-1)..(MaxDest + 1)},
     destination_alone |-> {None, Some(1)},
     files |-> DistinctSeqs(FilePool(plat), MaxFiles),
     force_sync |-> BOOLEAN]

\* the selections of the side bar: nothing, or one of these paths
SingleSelections(paths) == {<<>>} \cup {<<p>> : p \in paths}

\* the file system takes either separator: a path with its separators turned
\* into slashes
slashed(p) == [i \in 1..Len(p) |-> IF p[i] = "\\" THEN "/" ELSE p[i]]

Init ==
    /\ platform \in {"linux", "windows"}
    /\ \E n1 \in 0..MaxDest, n2 \in 0..1 :
        /\ n1 + n2 <= MaxDest
        /\ remotes = RemotesOf(n1, n2)
    /\ windowFolders \in DistinctSeqs(WindowFolderPool(platform), MaxFolders)
    /\ status = 0
    /\ viewSettings = [remote |-> None, destination |-> None]
    /\ cmd = NoCmd
    /\ panel = NoPanel
    /\ orch = [r \in {1} |-> NoRun]
    /\ threads = [r \in {1} |-> <<>>]
    /\ settings = [options |-> <<>>, excludes |-> <<>>]
    /\ fs = [files |-> FilePool(platform), dirs |-> Range(windowFolders)]
    /\ bindings = AllBindings(platform)
    /\ selections = SingleSelections(fs.files \cup fs.dirs)

\* --------------------------------------------------------- starting a sync
\* RsyncSSH.__init__
RsyncSSH_init(folder, destination, files, force_sync, via) ==
    [NoRun EXCEPT
        !.pc = "run",
        !.folder = folder,
        !.destination = destination,
        !.files = files,
        !.force_sync = force_sync,
        !.realRemotePaths = resolveRemotePaths(platform, DOMAIN remotes, windowFolders),
        !.via = via]

\* RsyncSshSyncCommand.run: args.get("remote", None), args.get("destination",
\* None), args.get("files", []), args.get("force_sync", False); the thread is
\* created and started
RsyncSshSyncCommand_run(r, remote, destination, files, force_sync, via) ==
    /\ orch[r].pc = "idle"
    /\ orch' = [orch EXCEPT ![r] = RsyncSSH_init(remote, destination, files, force_sync, via)]
    /\ UNCHANGED <<threads, status>>

\* some run can still be started: the panels are followed only while their
\* choice can start a run of the model
CanStart == \E r \in RunIds : orch[r].pc = "idle"

\* no panel command has been used yet: the model follows one use of the panels
\* or one direct use of the sync command
Untouched == panel.kind = "none" /\ cmd = NoCmd

\* the command run directly (key binding, menu entry, another command) with
\* any arguments
RunCommand ==
    \E r \in RunIds, remote \in bindings.remote, destination \in bindings.destination,
       files \in bindings.files, force_sync \in bindings.force_sync :
        /\ Untouched
        /\ IsNone(remote) => destination \in bindings.destination_alone
        /\ RsyncSshSyncCommand_run(r, remote, destination, files, force_sync, "command")
        /\ UNCHANGED <<config, viewSettings, cmd, panel>>

\* the keys with a destination whose destination.get("enabled", True) == True,
\* in the order the dictionary yields them
RECURSIVE enabledRemotes(_)
enabledRemotes(order) ==
    IF Len(order) = 0 THEN <<>>
    ELSE LET k == order[1]
             any == \E i \in 1..Len(remotes[k]) : remotes[k][i].enabled # "false"
         IN  (IF any THEN <<k>> ELSE <<>>) \o enabledRemotes(Tail(order))

\* RsyncSshSyncSpecificRemoteCommand.run: collect the remotes, open the panel
\* of remotes on the remembered row
RsyncSshSyncSpecificRemoteCommand_run ==
    /\ CanStart
    /\ Untouched
    /\ \E order \in KeyOrders :
        cmd' = [cmd EXCEPT
                   !.identifier = "specific_remote",
                   !.ignoreObviousRemoteChoice = FALSE,
                   !.files = <<>>,
                   !.possibleRemotes = enabledRemotes(order)]
    /\ panel' = [kind |-> "remote",
                 selected |-> IF IsNone(viewSettings.remote) THEN 0
                              ELSE The(viewSettings.remote)]
    /\ UNCHANGED <<config, status, viewSettings, orch, threads>>

\* isInDirectory(folder, file): the parts of the folder are compared with the
\* parts of the file from the front, each one popped from the reversed list;
\* pop() from the emptied list raises IndexError
RECURSIVE compareParts(_, _)
compareParts(folderParts, fileParts) ==
    IF Len(folderParts) = 0 THEN "True"
    ELSE IF Len(fileParts) = 0 THEN "IndexError"
    ELSE IF folderParts[1] # fileParts[1] THEN "False"
    ELSE compareParts(Tail(folderParts), Tail(fileParts))
isInDirectory(plat, folder, file) ==
    compareParts(split(strip(realpath(plat, folder), os_sep(plat)), <<os_sep(plat)>>),
                 split(strip(realpath(plat, file), os_sep(plat)), <<os_sep(plat)>>))

\* matchFile(file): the keys of realRemotePaths, in the order the dictionary
\* yields them, whose path holds the file; raised when isInDirectory raises
RECURSIVE matchKeys(_, _, _, _)
matchKeys(plat, realRemotePaths, order, file) ==
    IF Len(order) = 0 THEN <<>>
    ELSE (IF order[1] \in DOMAIN realRemotePaths
             /\ isInDirectory(plat, realRemotePaths[order[1]], file) = "True"
          THEN <<order[1]>> ELSE <<>>)
         \o matchKeys(plat, realRemotePaths, Tail(order), file)
matchFile(plat, realRemotePaths, order, file) ==
    [raised |-> \E k \in DOMAIN realRemotePaths :
                    isInDirectory(plat, realRemotePaths[k], file) = "IndexError",
     remotes |-> matchKeys(plat, realRemotePaths, order, file)]

\* RsyncSshSyncSelection.run after setup() has filled self.files: setup
\* returned False, matchFile raised, nothing matched, or the panel of remotes
\* is opened on its first row
RsyncSshSyncSelection_run(files, ok, raised, possibleRemotes) ==
    /\ cmd' = [cmd EXCEPT
                   !.identifier = "file",
                   !.ignoreObviousRemoteChoice = TRUE,
                   !.files = files,
                   !.possibleRemotes = IF ok /\ ~raised THEN possibleRemotes ELSE <<>>,
                   !.raised = raised]
    /\ panel' = IF ok /\ ~raised /\ Len(possibleRemotes) > 0
                THEN [kind |-> "remote", selected |-> 0]
                ELSE NoPanel
    /\ UNCHANGED <<config, status, viewSettings, orch, threads>>

\* RsyncSshSyncFileCommand: setup() takes the file of the view, if it has one
RsyncSshSyncFileCommand_run ==
    /\ CanStart
    /\ Untouched
    /\ \E currentFile \in {None} \cup {Some(f) : f \in fs.files}, order \in KeyOrders :
        IF IsNone(currentFile)
        THEN RsyncSshSyncSelection_run(<<>>, FALSE, FALSE, <<>>)
        ELSE LET m == matchFile(platform,
                                resolveRemotePaths(platform, DOMAIN remotes, windowFolders),
                                order, The(currentFile))
             IN  RsyncSshSyncSelection_run(<<The(currentFile)>>, TRUE, m.raised, m.remotes)

\* RsyncSshSideCommand: setup() takes the paths selected in the side bar; they
\* must all match the same remotes
RsyncSshSideCommand_run ==
    /\ CanStart
    /\ Untouched
    /\ \E paths \in selections, order \in KeyOrders :
        IF Len(paths) = 0
        THEN RsyncSshSyncSelection_run(<<>>, FALSE, FALSE, <<>>)
        ELSE LET m(i) == matchFile(platform,
                                   resolveRemotePaths(platform, DOMAIN remotes, windowFolders),
                                   order, paths[i])
             IN  RsyncSshSyncSelection_run(
                    paths,
                    \A i \in 1..Len(paths) : m(i).remotes = m(1).remotes,
                    \E i \in 1..Len(paths) : m(i).raised,
                    m(1).remotes)

min(a, b) == IF a < b THEN a ELSE b
max(a, b) == IF a > b THEN a ELSE b

\* mutant: the remembered row is used as it is
selected_destination_unclamped(remembered, n) ==
    IF IsNone(remembered) THEN 0 ELSE The(remembered)

\* the row the panel of destinations opens on: the remembered row, 0 by
\* default, brought into 0..len(destinations)
selected_destination(remembered, n) ==
    min(max(IF IsNone(remembered) THEN 0 ELSE The(remembered), 0), n)

\* RsyncSshSyncBase.sync_remote, the callback of the panel of remotes
sync_remote(choice) ==
    /\ CanStart
    /\ panel.kind = "remote"
    /\ IF choice >= 0
       THEN LET key == cmd.possibleRemotes[choice + 1]
                destinations == remotes[key]
            IN  /\ viewSettings' = [viewSettings EXCEPT !.remote = Some(choice)]
                /\ cmd' = [cmd EXCEPT !.selectedRemoteKey = Some(key)]
                /\ IF Len(destinations) = 0
                   THEN /\ panel' = NoPanel
                        /\ UNCHANGED <<orch, threads, status>>
                   ELSE IF Len(destinations) = 1 /\ ~cmd.ignoreObviousRemoteChoice
                   THEN /\ panel' = NoPanel
                        /\ \E r \in RunIds :
                            RsyncSshSyncCommand_run(r, Some(key), None, <<>>, TRUE, "sync_remote")
                   ELSE /\ panel' =
                            [kind |-> "destination",
                             selected |-> selected_destination(viewSettings.destination,
                                                               Len(destinations))]
                        /\ UNCHANGED <<orch, threads, status>>
       ELSE /\ panel' = NoPanel
            /\ UNCHANGED <<viewSettings, cmd, orch, threads, status>>
    /\ UNCHANGED config

\* the rows the user can pick in the panel of remotes, or -1 for none
PickRemote == \E choice \in (-1)..(Len(cmd.possibleRemotes) - 1) : sync_remote(choice)

\* mutant: a specific destination is not forced
forceFor_never(choice) == FALSE

\* 'force_sync': False if choice == 0 else True
forceFor(choice) == choice # 0

\* RsyncSshSyncBase.sync_destination, the callback of the panel of destinations
sync_destination(choice) ==
    /\ CanStart
    /\ panel.kind = "destination"
    /\ panel' = NoPanel
    /\ IF choice >= 0
       THEN /\ viewSettings' = [viewSettings EXCEPT !.destination = Some(choice)]
            /\ \E r \in RunIds :
                RsyncSshSyncCommand_run(r, cmd.selectedRemoteKey, Some(choice), cmd.files,
                                        forceFor(choice), "sync_destination")
       ELSE UNCHANGED <<viewSettings, orch, threads, status>>
    /\ UNCHANGED <<config, cmd>>

\* the rows of the panel of destinations: "All" and one per destination
PickDestination ==
    /\ panel.kind = "destination"
    /\ \E choice \in (-1)..Len(remotes[The(cmd.selectedRemoteKey)]) : sync_destination(choice)

\* ------------------------------------------------------ the job: Rsync thread
\* the subprocesses of a job, in the order Rsync.run reaches them
Phases == <<"cygpath", "probe", "pre", "transfer", "post">>

\* Rsync.__init__; the thread is started by runDestination
Rsync_init(local_path, prefix, destination, excludes, options, specific_path, force_sync) ==
    [local_path |-> local_path, prefix |-> prefix, destination |-> destination,
     excludes |-> excludes, options |-> options,
     specific_path |-> specific_path, force_sync |-> force_sync,
     rsync_path |-> <<>>,
     dry_run |-> FALSE,     \* what the test for '--dry-run' found when the
                            \* command was built
     pc |-> "start",        \* where Rsync.run stands
     calls |-> <<>>,        \* the subprocesses invoked so far, in order
     running |-> {},        \* the subprocesses that have not exited yet
     log |-> {}]            \* the kinds of lines printed to the console

\* the error lines a job prints
ProbeFailureLines ==
    {"ERROR: probe timed out", "ERROR: ssh check command failed",
     "ERROR: Unable to locate rsync"}
FailureLinesOfJob ==
    ProbeFailureLines \cup {"ERROR: pre command", "ERROR: rsync", "ERROR: post command"}

\* check_output(...) is entered: the subprocess is started and run() waits
invoke(job, phase) ==
    [job EXCEPT !.pc = phase,
                !.calls = Append(@, phase),
                !.running = @ \cup {phase}]

\* mutant: the subprocess is started without waiting for it
exited_notWaited(job, phase) == job

\* check_output(...) is left: the subprocess has exited
exited(job, phase) == [job EXCEPT !.running = @ \ {phase}]

\* return from Rsync.run after printing a line of this kind
finish(job, lines) == [job EXCEPT !.pc = "end", !.log = @ \cup lines]

\* cygpath turns the separators of a Windows path into slashes
cygpath(p) == [i \in 1..Len(p) |-> IF p[i] = "\\" THEN "/" ELSE p[i]]

\* mutant: the disabled check forgets force_sync
skips_ignoringForce(job) == ~enabled_or_default(job.destination)

\* not self.force_sync and not self.destination.get("enabled", 1)
skips(job) == ~job.force_sync /\ ~enabled_or_default(job.destination)

\* the disabled check, then the ssh check command "LANG=C which rsync"
checkEnabled(job) ==
    IF skips(job) THEN finish(job, {"Skipping, destination is disabled."})
    ELSE invoke(job, "probe")

\* the head of Rsync.run: on Windows the paths go through cygpath first
begin(job) ==
    IF platform = "windows" THEN invoke(job, "cygpath") ELSE checkEnabled(job)

\* cygpath has exited: CalledProcessError ends the job
afterCygpath(job, ok) ==
    IF ok
    THEN checkEnabled([exited(job, "cygpath") EXCEPT
                          !.local_path = cygpath(@),
                          !.specific_path = IF IsNone(@) THEN None ELSE Some(cygpath(The(@)))])
    ELSE finish(exited(job, "cygpath"), {"ERROR: Failed to run cygpath"})

\* os.path.isfile and os.path.isdir
isfile(p) == \E f \in fs.files : slashed(f) = slashed(p)
isdir(p) == \E d \in fs.dirs : slashed(d) = slashed(p)

\* "What to rsync": the whole local root, or the specific path when it is a
\* file or a directory below the local root
narrowed(job) ==
    /\ ~IsNone(job.specific_path)
    /\ The(job.specific_path) # <<>>
    /\ isfile(The(job.specific_path)) \/ isdir(The(job.specific_path))
    /\ startswith(The(job.specific_path), job.local_path \o <<"/">>)
source_path(job) ==
    IF ~narrowed(job) THEN job.local_path \o <<"/">>
    ELSE IF isfile(The(job.specific_path)) THEN The(job.specific_path)
    ELSE The(job.specific_path) \o <<"/">>
destination_path(job) ==
    IF ~narrowed(job) THEN job.destination.remote_path
    ELSE job.destination.remote_path \o replace(The(job.specific_path), job.local_path, <<>>)

\* settings.get("ssh_binary", settings.get("ssh_command", "ssh")) and
\* settings.get("timeout", 10), both left at their defaults
ssh_binary == <<"ssh">>
connect_timeout == <<"10">>

\* ssh_command_with_default_args()
ssh_command_with_default_args ==
    <<ssh_binary, <<"-q">>, <<"-T">>, <<"-o">>, <<"ConnectTimeout=">> \o connect_timeout>>

\* the elements of a set in the order its iteration yields them
RECURSIVE listOf(_)
listOf(S) ==
    IF S = {} THEN <<>>
    ELSE LET x == CHOOSE y \in S : TRUE IN <<x>> \o listOf(S \ {x})

\* "for option in self.options: rsync_command.extend(option.split(' ', 1))"
RECURSIVE splitOptions(_)
splitOptions(options) ==
    IF Len(options) = 0 THEN <<>>
    ELSE split1(options[1], " ") \o splitOptions(Tail(options))

\* mutant: one argument for every entry of the list
excludeArgs_noSet(excludes) ==
    [i \in 1..Len(excludes) |-> <<"--exclude=">> \o excludes[i]]

\* "for exclude in set(self.excludes): rsync_command.append('--exclude=' + exclude)"
excludeArgs(excludes) ==
    LET l == listOf(Range(excludes))
    IN  [i \in 1..Len(l) |-> <<"--exclude=">> \o l[i]]

\* the rsync command as it is printed to the console, before the mkdir wrapper
printed_command(job) ==
    << <<"rsync">>, <<"-v">>, <<"-zar">>, <<"-e">>,
       join(" ", ssh_command_with_default_args) >>
    \o splitOptions(job.options)
    \o << source_path(job),
          job.destination.remote_user \o <<"@">> \o job.destination.remote_host
            \o <<":'">> \o destination_path(job) \o <<"'">> >>
    \o excludeArgs(job.excludes)

\* len([option for option in rsync_command if '--dry-run' in option]) != 0
has_dry_run(command) ==
    \E c \in {command} : \E i \in 1..Len(c) : contains(c[i], <<"--dry-run">>)

\* "Add mkdir unless we have a --dry-run flag": the argument list of the
\* transfer
rsync_command(job) ==
    only({IF ~has_dry_run(printed)
          THEN printed \o
               << <<"--rsync-path">>,
                  <<"mkdir -p '">> \o dirname(destination_path(job)) \o <<"' && ">>
                      \o job.rsync_path >>
          ELSE printed : printed \in {printed_command(job)}})

\* the rsync transfer is started
startTransfer(job) ==
    invoke([job EXCEPT !.dry_run = has_dry_run(printed_command(job))], "transfer")

ProbeOutcomes == {"timeout", "error", "not_rsync", "rsync"}

\* the output of "which rsync" on the remote host, stripped
RemoteRsync == <<"/", "usr", "/", "bin", "/", "rsync">>

\* mutant: the "Unable to locate rsync" branch lacks its return
afterProbe_noReturn(job, outcome) ==
    LET j == [job EXCEPT !.running = @ \ {"probe"}]
    IN  IF outcome = "timeout" THEN finish(j, {"ERROR: probe timed out"})
        ELSE IF outcome = "error" THEN finish(j, {"ERROR: ssh check command failed"})
        ELSE LET k == IF outcome = "not_rsync"
                      THEN [j EXCEPT !.log = @ \cup {"ERROR: Unable to locate rsync"}]
                      ELSE j
             IN  IF job.destination.remote_pre_command THEN invoke(k, "pre")
                 ELSE startTransfer(k)

\* the check command has returned: TimeoutExpired, CalledProcessError, output
\* that does not end in "/rsync", or the path of the remote rsync
afterProbe(job, outcome) ==
    LET j == exited(job, "probe")
    IN  IF outcome = "timeout" THEN finish(j, {"ERROR: probe timed out"})
        ELSE IF outcome = "error" THEN finish(j, {"ERROR: ssh check command failed"})
        ELSE IF outcome = "not_rsync" THEN finish(j, {"ERROR: Unable to locate rsync"})
        ELSE LET k == [j EXCEPT !.rsync_path = RemoteRsync]
             IN  IF job.destination.remote_pre_command THEN invoke(k, "pre")
                 ELSE startTransfer(k)

\* the pre command has exited: CalledProcessError is printed, and run() goes
\* on to build and execute the rsync command
afterPre(job, code) ==
    LET j == exited(job, "pre")
    IN  startTransfer(IF code # 0 THEN [j EXCEPT !.log = @ \cup {"ERROR: pre command"}]
                      ELSE j)

\* how the transfer can end: exit 0, a non-zero exit whose output contains
\* "No such file or directory", or any other non-zero exit
TransferOutcomes == {"ok", "no_such_file", "error"}

\* the line Rsync.run prints for the way the transfer ended
transferLines(job, outcome) ==
    LET dry == job.dry_run
    IN  IF outcome = "ok"
        THEN IF dry THEN {"NOTICE: Nothing synced."} ELSE {}
        ELSE IF dry /\ outcome = "no_such_file"
             THEN {"WARNING: Unable to do dry run"}
             ELSE {"ERROR: rsync"}

\* mutant: a failed transfer ends the job
afterTransfer_returnOnError(job, outcome) ==
    LET j == exited(job, "transfer")
        k == [j EXCEPT !.log = @ \cup transferLines(job, outcome)]
    IN  IF job.destination.remote_post_command /\ outcome = "ok" THEN invoke(k, "post")
        ELSE finish(k, {})

\* rsync has exited: its output, a warning or an error is printed; then the
\* post command
afterTransfer(job, outcome) ==
    LET j == exited(job, "transfer")
        k == [j EXCEPT !.log = @ \cup transferLines(job, outcome)]
    IN  IF job.destination.remote_post_command THEN invoke(k, "post")
        ELSE finish(k, {})

\* the post command has exited: end of run
afterPost(job, code) ==
    finish(exited(job, "post"), IF code # 0 THEN {"ERROR: post command"} ELSE {})

ExitCodes == {0, 1}

\* one step of the thread of job j of run r: from its start to the first
\* subprocess, or from the exit of one subprocess to the next
Rsync_run(r, j) ==
    /\ j \in 1..Len(threads[r])
    /\ LET job == threads[r][j]
       IN  \/ /\ job.pc = "start"
              /\ threads' = [threads EXCEPT ![r][j] = begin(job)]
           \/ /\ job.pc = "cygpath"
              /\ \E ok \in BOOLEAN :
                    threads' = [threads EXCEPT ![r][j] = afterCygpath(job, ok)]
           \/ /\ job.pc = "probe"
              /\ \E outcome \in ProbeOutcomes :
                    threads' = [threads EXCEPT ![r][j] = afterProbe(job, outcome)]
           \/ /\ job.pc = "pre"
              /\ \E code \in ExitCodes :
                    threads' = [threads EXCEPT ![r][j] = afterPre(job, code)]
           \/ /\ job.pc = "transfer"
              /\ \E outcome \in TransferOutcomes :
                    threads' = [threads EXCEPT ![r][j] = afterTransfer(job, outcome)]
           \/ /\ job.pc = "post"
              /\ \E code \in ExitCodes :
                    threads' = [threads EXCEPT ![r][j] = afterPost(job, code)]
    /\ UNCHANGED <<config, status, viewSettings, cmd, panel, orch>>

\* ------------------------------------------- the orchestrator: RsyncSSH thread
\* mutant: without a folder the index selects a destination of the first key
mapDestination_indexWithoutFolder(folder, destination) ==
    IF IsNone(destination) THEN None
    ELSE LET destinations == remotes[IF IsNone(folder) THEN Key1 ELSE The(folder)]
         IN  IF Len(destinations) < The(destination) \/ The(destination) <= 0
             THEN None
             ELSE Some(destinations[The(destination)])

\* mutant: an index beyond the list selects the last destination
mapDestination_clamped(folder, destination) ==
    IF IsNone(destination) THEN None
    ELSE IF IsNone(folder) THEN None
    ELSE LET destinations == remotes[The(folder)]
         IN  IF Len(destinations) = 0 \/ The(destination) <= 0
             THEN None
             ELSE Some(destinations[min(The(destination), Len(destinations))])

\* mutant: the index is used without the shift for the "All" row
mapDestination_offByOne(folder, destination) ==
    IF IsNone(destination) THEN None
    ELSE IF IsNone(folder) THEN None
    ELSE LET destinations == remotes[The(folder)]
         IN  IF Len(destinations) < The(destination) \/ The(destination) <= 0
             THEN None
             ELSE Some(destinations[IF The(destination) > 1 THEN The(destination) - 1
                                    ELSE Len(destinations)])

\* the destination index mapped to the destination: None ("loop over all")
\* without a folder, for an index below 1 and for one beyond the list
mapDestination(folder, destination) ==
    IF IsNone(destination) THEN None
    ELSE IF IsNone(folder) THEN None
    ELSE LET destinations == remotes[The(folder)]
         IN  IF Len(destinations) < The(destination) \/ The(destination) <= 0
             THEN None
             ELSE Some(destinations[The(destination)])

\* mutant: the loop over the destinations stops after the first
runFolder_firstOnly(folder, selected) ==
    IF IsNone(selected)
    THEN [i \in 1..min(1, Len(remotes[folder])) |-> <<folder, remotes[folder][i]>>]
    ELSE <<<<folder, The(selected)>>>>

\* runFolder(folder): the runDestination calls it makes, in order
runFolder(folder, selected) ==
    IF IsNone(selected)
    THEN [i \in 1..Len(remotes[folder]) |-> <<folder, remotes[folder][i]>>]
    ELSE <<<<folder, The(selected)>>>>

\* "for folder in self.settings.get("remotes").keys(): self.runFolder(folder)"
RECURSIVE runFolders(_, _)
runFolders(order, selected) ==
    IF Len(order) = 0 THEN <<>>
    ELSE runFolder(order[1], selected) \o runFolders(Tail(order), selected)

\* the first part of RsyncSSH.run: the index is mapped and the loops over the
\* folders and their destinations are entered
RsyncSSH_run(r) ==
    /\ orch[r].pc = "run"
    /\ LET selected == mapDestination(orch[r].folder, orch[r].destination)
       IN  \E order \in KeyOrders :
            LET todo == IF IsNone(orch[r].folder) THEN runFolders(order, selected)
                        ELSE runFolder(The(orch[r].folder), selected)
            IN  orch' = [orch EXCEPT ![r].selected = selected,
                                     ![r].todo = todo,
                                     ![r].pc = IF Len(todo) = 0 THEN "join" ELSE "expand"]
    /\ UNCHANGED <<config, status, viewSettings, cmd, panel, threads>>

\* global_excludes = [".DS_Store"]
DS_Store == <<".DS_Store">>

\* the Rsync threads one runDestination call creates: one per file, or one
\* for the whole folder
newThreads(local_path, folder, destination, files, force_sync) ==
    LET global_excludes == <<DS_Store>> \o settings.excludes
        global_options == settings.options
        local_excludes == global_excludes \o destination.excludes
        local_options == global_options \o destination.options
    IN  IF Len(files) > 0
        THEN [i \in 1..Len(files) |->
                Rsync_init(local_path, folder, destination, local_excludes,
                           local_options, Some(files[i]), force_sync)]
        ELSE <<Rsync_init(local_path, folder, destination, local_excludes,
                          local_options, None, force_sync)>>

\* runDestination(folder, destination), the next call of the loops.  For a
\* folder that is not in realRemotePaths it calls console_print with two of
\* its three arguments: the TypeError ends the RsyncSSH thread.
runDestination(r) ==
    /\ orch[r].pc = "expand"
    /\ LET folder == orch[r].todo[1][1]
           destination == orch[r].todo[1][2]
           rest == Tail(orch[r].todo)
       IN  IF folder \notin DOMAIN orch[r].realRemotePaths
           THEN /\ orch' = [orch EXCEPT ![r].pc = "raised"]
                /\ UNCHANGED <<threads, status>>
           ELSE /\ threads' = [threads EXCEPT ![r] = @ \o
                                 newThreads(orch[r].realRemotePaths[folder], folder,
                                            destination, orch[r].files, orch[r].force_sync)]
                /\ status' = Len(threads'[r])
                /\ orch' = [orch EXCEPT ![r].todo = rest,
                                        ![r].pc = IF Len(rest) = 0 THEN "join" ELSE "expand"]
    /\ UNCHANGED <<config, viewSettings, cmd, panel>>

\* mutant: join gives up on a thread that printed an error
joinable_clean(job) == job.pc = "end" /\ job.log \cap FailureLinesOfJob = {}

\* mutant: join returns without waiting for the thread
joinable_always(job) == TRUE

\* thread.join() returns once the thread has ended
joinable(job) == job.pc = "end"

\* "for thread in self.threads: thread.join()": the next join returns
thread_join(r) ==
    /\ orch[r].pc = "join"
    /\ orch[r].joined < Len(threads[r])
    /\ joinable(threads[r][orch[r].joined + 1])
    /\ orch' = [orch EXCEPT ![r].joined = @ + 1]
    /\ UNCHANGED <<config, status, viewSettings, cmd, panel, threads>>

\* the end of RsyncSSH.run: the status is read and cleared, "<status> - done."
\* goes to the status bar and, if there were threads, "done" to the console
RsyncSSH_done(r) ==
    /\ orch[r].pc = "join"
    /\ orch[r].joined = Len(threads[r])
    /\ orch' = [orch EXCEPT ![r].pc = "done",
                            ![r].reported = Some(status),
                            ![r].console_done = Len(threads[r]) > 0]
    /\ status' = 0
    /\ UNCHANGED <<config, viewSettings, cmd, panel, threads>>

\* -------------------------------------------------------------- specification
\* the options and the exclude patterns of the command line specification
OptionPool == {<<"--dry-run">>, <<"--timeout", " ", "30">>}
ExcludePool == {DS_Store, <<"--dry-run", ".log">>}
MaxOpts == 1
MaxExcl == 1

\* the sequences of at most n elements of S
RECURSIVE SeqsUpTo(_, _)
SeqsUpTo(S, n) ==
    IF n = 0 THEN {<<>>}
    ELSE LET shorter == SeqsUpTo(S, n - 1)
         IN  shorter \cup
             UNION {{Append(q, x) : x \in S} : q \in {t \in shorter : Len(t) = n - 1}}

\* a file below the first workspace folder whose name holds "--dry-run"
DryRunFile == <<"/", "h", "/", "a", "/", "--dry-run", ".txt">>

\* one destination under "a", none under "b/c"; the options and the exclude
\* patterns of the settings and of the destination vary
InitCmd ==
    /\ platform = "linux"
    /\ \E options \in SeqsUpTo(OptionPool, MaxOpts), excludes \in SeqsUpTo(ExcludePool, MaxExcl) :
        remotes = [k \in RemoteKeys |->
                     IF k = Key1
                     THEN <<[Destination(Key1, 1) EXCEPT !.options = options,
                                                         !.excludes = excludes]>>
                     ELSE <<>>]
    /\ settings \in [options : {<<>>} \cup {<<o>> : o \in OptionPool},
                      excludes : {<<>>} \cup {<<e>> : e \in ExcludePool}]
    /\ windowFolders = <<<<"/", "h", "/", "a">>>>
    /\ fs = [files |-> FilePool(platform) \cup {DryRunFile}, dirs |-> Range(windowFolders)]
    /\ bindings = [remote |-> {None}, destination |-> {None},
                   destination_alone |-> {None},
                   files |-> {<<>>, <<DryRunFile>>}, force_sync |-> {FALSE}]
    /\ selections = SingleSelections(fs.files \cup fs.dirs)
    /\ status = 0
    /\ viewSettings = [remote |-> None, destination |-> None]
    /\ cmd = NoCmd
    /\ panel = NoPanel
    /\ orch = [r \in {1} |-> NoRun]
    /\ threads = [r \in {1} |-> <<>>]

Next ==
    \/ RunCommand
    \/ RsyncSshSyncSpecificRemoteCommand_run
    \/ RsyncSshSyncFileCommand_run
    \/ RsyncSshSideCommand_run
    \/ PickRemote
    \/ PickDestination
    \/ \E r \in RunIds : RsyncSSH_run(r)
    \/ \E r \in RunIds : runDestination(r)
    \/ \E r \in RunIds : thread_join(r)
    \/ \E r \in RunIds : RsyncSSH_done(r)
    \/ \E r \in RunIds : \E j \in 1..Len(threads[r]) : Rsync_run(r, j)

\* the workspace folders of the path specification: two of them end in "a"
RichFolderPool ==
    {<<"/", "h", "/", "a">>, <<"/", "g", "/", "a">>, <<"/", "h", "/", "b">>}

\* one destination under each key, the workspace folders vary, and so do the
\* paths the selection commands are given; or one workspace folder whose key
\* has one destination more than MaxDest
InitPaths ==
    /\ platform = "linux"
    /\ windowFolders \in DistinctSeqs(RichFolderPool, MaxFolders)
    /\ \/ remotes = RemotesOf(1, 1)
       \/ /\ windowFolders = <<<<"/", "h", "/", "a">>>>
          /\ remotes = RemotesOf(MaxDest + 1, 0)
    /\ settings = [options |-> <<>>, excludes |-> <<>>]
    /\ fs = [files |-> FilePool(platform) \cup {<<"/", "h", "/", "b", "/", "c", "/", "f">>},
             dirs |-> Range(windowFolders) \cup {<<"/", "h">>, <<"/", "h", "/", "b", "/", "c">>}]
    /\ bindings = [remote |-> {None}, destination |-> {None},
                   destination_alone |-> {None},
                   files |-> {<<>>}, force_sync |-> {FALSE}]
    /\ selections = SingleSelections(fs.files \cup fs.dirs)
    /\ status = 0
    /\ viewSettings = [remote |-> None, destination |-> None]
    /\ cmd = NoCmd
    /\ panel = NoPanel
    /\ orch = [r \in {1} |-> NoRun]
    /\ threads = [r \in {1} |-> <<>>]

\* two runs can be started on the view: one destination under "a", whose
\* workspace folder is open, and none under "b/c"; the command is run for
\* either key
InitTwo ==
    /\ platform = "linux"
    /\ remotes = RemotesOf(1, 0)
    /\ windowFolders = <<<<"/", "h", "/", "a">>>>
    /\ settings = [options |-> <<>>, excludes |-> <<>>]
    /\ fs = [files |-> FilePool(platform), dirs |-> Range(windowFolders)]
    /\ bindings = [remote |-> {Some(k) : k \in RemoteKeys}, destination |-> {None},
                   destination_alone |-> {},
                   files |-> {<<>>}, force_sync |-> {FALSE}]
    /\ selections = SingleSelections(fs.files)
    /\ status = 0
    /\ viewSettings = [remote |-> None, destination |-> None]
    /\ cmd = NoCmd
    /\ panel = NoPanel
    /\ orch = [r \in {1, 2} |-> NoRun]
    /\ threads = [r \in {1, 2} |-> <<>>]

\* the paths of the file specification, for the local root /h/a: a file and
\* a directory below it, a file below a directory of it that repeats the
\* root's own path, a path below it that does not exist, a file outside it,
\* and the root
FileBelow == <<"/", "h", "/", "a", "/", "f">>
DirBelow == <<"/", "h", "/", "a", "/", "d">>
FileNested == <<"/", "h", "/", "a", "/", "h", "/", "a", "/", "f">>
MissingBelow == <<"/", "h", "/", "a", "/", "g">>
FileOutside == <<"/", "x", "/", "f">>
LocalRoot == <<"/", "h", "/", "a">>
PathPool == {FileBelow, DirBelow, FileNested, MissingBelow, FileOutside, LocalRoot}

\* the lists of one path or of two different paths of S
OneOrTwo(S) == {<<p>> : p \in S} \cup {pq \in S \X S : pq[1] # pq[2]}

\* one destination under "a", whose workspace folder is open, none under
\* "b/c"; the command is run for "a" or for every key, with no file, one
\* path or two different paths
InitFiles ==
    /\ platform = "linux"
    /\ remotes = RemotesOf(1, 0)
    /\ windowFolders = <<LocalRoot>>
    /\ settings = [options |-> <<>>, excludes |-> <<>>]
    /\ fs = [files |-> {FileBelow, FileNested, FileOutside},
             dirs |-> {LocalRoot, DirBelow, <<"/", "x">>}]
    /\ bindings = [remote |-> {None, Some(Key1)}, destination |-> {None},
                   destination_alone |-> {None},
                   files |-> {<<>>} \cup OneOrTwo(PathPool), force_sync |-> {FALSE}]
    /\ selections = SingleSelections({FileBelow})
    /\ status = 0
    /\ viewSettings = [remote |-> None, destination |-> None]
    /\ cmd = NoCmd
    /\ panel = NoPanel
    /\ orch = [r \in {1} |-> NoRun]
    /\ threads = [r \in {1} |-> <<>>]

\* the panels are opened on a view that remembers rows chosen earlier: any
\* row of a panel of remotes, and any row of a panel of destinations
InitPanels ==
    /\ platform = "linux"
    /\ \E n1 \in 0..MaxDest, n2 \in 0..1 :
        /\ n1 + n2 <= MaxDest
        /\ remotes = RemotesOf(n1, n2)
    /\ windowFolders = <<LocalRoot>>
    /\ settings = [options |-> <<>>, excludes |-> <<>>]
    /\ fs = [files |-> FilePool(platform), dirs |-> Range(windowFolders)]
    /\ bindings = [remote |-> {None}, destination |-> {None},
                   destination_alone |-> {None},
                   files |-> {<<>>}, force_sync |-> {FALSE}]
    /\ selections = SingleSelections(fs.files \cup fs.dirs)
    /\ status = 0
    /\ viewSettings \in [remote : {None} \cup {Some(i) : i \in 0..(Cardinality(RemoteKeys) - 1)},
                          destination : {None} \cup {Some(i) : i \in 0..MaxDest}]
    /\ cmd = NoCmd
    /\ panel = NoPanel
    /\ orch = [r \in {1} |-> NoRun]
    /\ threads = [r \in {1} |-> <<>>]

Spec == Init /\ [][Next]_vars

SpecTwo == InitTwo /\ [][Next]_vars

SpecPaths == InitPaths /\ [][Next]_vars

SpecCmd == InitCmd /\ [][Next]_vars

SpecFiles == InitFiles /\ [][Next]_vars

SpecPanels == InitPanels /\ [][Next]_vars

\* ------------------------------------------------------------------- claims
JobIds(r) == 1..Len(threads[r])
Called(job, phase) == phase \in Range(job.calls)
Ended(job) == job.pc = "end"

JobFailed(job) == job.log \cap FailureLinesOfJob # {}
CygpathFailed(job) == "ERROR: Failed to run cygpath" \in job.log

\* the job ended as Skipped: the skip line is printed and neither the probe,
\* the pre command, the transfer nor the post command was invoked
Skipped(job) ==
    /\ Ended(job)
    /\ "Skipping, destination is disabled." \in job.log
    /\ Range(job.calls) \cap {"probe", "pre", "transfer", "post"} = {}

\* the RsyncSSH thread has ended, by returning from run() or by an exception
RunThreadEnded(r) == orch[r].pc \in {"done", "raised"}

\* C1: a job whose pre command exited non-zero never invokes the rsync
\* transfer: it ends at the pre command, as failed.
C1_PreFailureGatesTransfer ==
    \A r \in RunIds : \A j \in JobIds(r) :
        LET job == threads[r][j]
        IN  (job.destination.remote_pre_command /\ "ERROR: pre command" \in job.log)
                => (~Called(job, "transfer") /\ Ended(job))

\* C2: in a run over all remote keys in which some key has no resolved local
\* path, the RsyncSSH thread still ends by reporting completion: every
\* destination of every resolved key got its job, all jobs were joined and the
\* status marker is cleared.
C2_UnknownKeyIsSkippedOnly ==
    \A r \in RunIds :
        (/\ RunThreadEnded(r)
         /\ IsNone(orch[r].folder)
         /\ \E k \in DOMAIN remotes : k \notin DOMAIN orch[r].realRemotePaths)
        => /\ orch[r].pc = "done"
           /\ \A k \in DOMAIN orch[r].realRemotePaths : \A i \in 1..Len(remotes[k]) :
                \E j \in JobIds(r) : /\ threads[r][j].prefix = k
                                     /\ threads[r][j].destination = remotes[k][i]
           /\ orch[r].joined = Len(threads[r])
           /\ status = 0

\* C3: once a job of a run has failed (probe, pre command, transfer or post
\* command), every sibling job that has not ended can still take its next
\* step, the orchestrator can still make its next runDestination call, its
\* next join returns as soon as the joined job has ended, and after the last
\* join it reports; a reported run has joined every job it spawned.
C3_JobFailuresAreIsolated ==
    \A r \in RunIds : \A j \in JobIds(r) :
        JobFailed(threads[r][j]) =>
            /\ \A k \in JobIds(r) \ {j} :
                    ~Ended(threads[r][k]) => ENABLED Rsync_run(r, k)
            /\ orch[r].pc = "expand" => ENABLED runDestination(r)
            /\ (/\ orch[r].pc = "join"
                /\ orch[r].joined < Len(threads[r])
                /\ Ended(threads[r][orch[r].joined + 1])) => ENABLED thread_join(r)
            /\ (orch[r].pc = "join" /\ orch[r].joined = Len(threads[r]))
                    => ENABLED RsyncSSH_done(r)
            /\ orch[r].pc = "done" => orch[r].joined = Len(threads[r])

\* a job failed at its probe, a sibling ran through its transfer without any
\* failure, and the run joined both and reported
C3_Witness ==
    \E r \in RunIds : \E j, k \in JobIds(r) :
        /\ j # k
        /\ threads[r][j].log \cap ProbeFailureLines # {}
        /\ Ended(threads[r][k]) /\ Called(threads[r][k], "transfer")
        /\ ~JobFailed(threads[r][k])
        /\ orch[r].pc = "done"

\* C4: a run that spawned jobs has reported "done" and cleared the status
\* marker only when every job it spawned has ended and no subprocess of any of
\* its jobs is still running.
C4_DoneOnlyAfterEveryJobEnded ==
    \A r \in RunIds :
        (Len(threads[r]) > 0 /\ (orch[r].pc = "done" \/ ~IsNone(orch[r].reported)))
            => \A j \in JobIds(r) : Ended(threads[r][j]) /\ threads[r][j].running = {}

\* a run of two jobs, both past their transfer, has reported "done"
C4_Witness ==
    \E r \in RunIds :
        /\ orch[r].pc = "done" /\ orch[r].console_done
        /\ Len(threads[r]) >= 2
        /\ \A j \in JobIds(r) : Called(threads[r][j], "transfer")

\* C5: a run whose thread has ended has reported " - done." and left the
\* status marker cleared, whatever its jobs did.
C5_EveryEndedRunReported ==
    \A r \in RunIds :
        RunThreadEnded(r) => (~IsNone(orch[r].reported) /\ status = 0)

\* C6 as stated: an ended job is Skipped if and only if force_sync is false
\* and the destination's enabled flag is false.
C6_SkippedIffDisabledAndUnforced ==
    \A r \in RunIds : \A j \in JobIds(r) :
        LET job == threads[r][j]
        IN  Ended(job) =>
                (Skipped(job) <=> (~job.force_sync /\ job.destination.enabled = "false"))

\* C6, amended: an ended job whose cygpath conversion (Windows only) did not
\* fail is Skipped, with no probe, pre command, transfer or post command, if
\* and only if force_sync is false and the enabled flag is false; and a job
\* past that conversion that is forced, enabled or without an enabled flag has
\* invoked the probe.
C6_SkippedIffDisabledUnforcedAndConverted ==
    \A r \in RunIds : \A j \in JobIds(r) :
        LET job == threads[r][j]
        IN  /\ (Ended(job) /\ ~CygpathFailed(job)) =>
                (Skipped(job) <=> (~job.force_sync /\ job.destination.enabled = "false"))
            /\ (Ended(job) /\ CygpathFailed(job)) =>
                (~Skipped(job) /\ job.calls = <<"cygpath">>)
            /\ (/\ job.pc \notin {"start", "cygpath"}
                /\ ~CygpathFailed(job)
                /\ (job.force_sync \/ job.destination.enabled \in {"absent", "true"}))
               => Called(job, "probe")

\* in an unforced run the job of the disabled destination was skipped while
\* the job of a destination without an enabled flag was probed
C6_Witness ==
    \E r \in RunIds : \E j, k \in JobIds(r) :
        /\ Skipped(threads[r][j])
        /\ threads[r][j].destination.enabled = "false"
        /\ ~threads[r][k].force_sync
        /\ threads[r][k].destination.enabled = "absent"
        /\ Called(threads[r][k], "probe")

\* the run has made all its runDestination calls, or died making one
Expanded(r) == orch[r].pc \in {"join", "done", "raised"}

\* the run was started by a choice in the panel of destinations, for a folder
\* with at least two destinations and without files
PanelRun(r) ==
    /\ orch[r].via = "sync_destination"
    /\ orch[r].files = <<>>
    /\ Len(remotes[The(orch[r].folder)]) >= 2

\* row 0 gave one unforced job per destination of the folder, in order, and
\* row i >= 1 gave one forced job, for destination i - 1 of the list (the
\* i-th of the 1-based sequence)
PanelExpansion(r) ==
    LET destinations == remotes[The(orch[r].folder)]
        choice == The(orch[r].destination)
    IN  IF choice = 0
        THEN /\ Len(threads[r]) = Len(destinations)
             /\ \A i \in JobIds(r) :
                    /\ threads[r][i].destination = destinations[i]
                    /\ ~threads[r][i].force_sync
        ELSE /\ choice \in 1..Len(destinations)
             /\ Len(threads[r]) = 1
             /\ threads[r][1].destination = destinations[choice]
             /\ threads[r][1].force_sync

\* C7 as stated: for a folder with n >= 2 destinations and no files, row 0 of
\* the destination panel expands to n unforced jobs, one per destination, and
\* row i in 1..n to one forced job for destination i - 1.
C7_PanelChoiceExpands ==
    \A r \in RunIds : (PanelRun(r) /\ Expanded(r)) => PanelExpansion(r)

\* C7, amended: the same, for a folder that is bound to a workspace folder
\* (a key of realRemotePaths).
C7_PanelChoiceExpandsResolvedFolder ==
    \A r \in RunIds :
        (/\ PanelRun(r)
         /\ Expanded(r)
         /\ The(orch[r].folder) \in DOMAIN orch[r].realRemotePaths)
        => (PanelExpansion(r) /\ orch[r].pc # "raised")

\* row 2 of the panel of a resolved folder with two destinations started one
\* forced job for the second destination, and the run reported
C7_Witness ==
    \E r \in RunIds :
        /\ PanelRun(r)
        /\ orch[r].destination = Some(2)
        /\ orch[r].pc = "done"
        /\ Len(threads[r]) = 1
        /\ threads[r][1].destination = remotes[The(orch[r].folder)][2]
        /\ threads[r][1].force_sync

\* C8 as stated: a run for a folder and an index that selects one destination
\* spawns jobs with force_sync = true only, whatever force_sync it was given.
C8_SelectedDestinationIsForced ==
    \A r \in RunIds :
        (~IsNone(orch[r].folder) /\ ~IsNone(orch[r].selected))
            => \A j \in JobIds(r) : threads[r][j].force_sync

\* C8, amended: a run started from the panel of destinations with a row >= 1
\* spawns forced jobs only, so its job is never skipped as disabled; and every
\* job of every run carries the force_sync its run was given.
C8_PanelSelectionIsForced ==
    \A r \in RunIds :
        /\ (orch[r].via = "sync_destination" /\ ~IsNone(orch[r].selected))
            => \A j \in JobIds(r) :
                    /\ threads[r][j].force_sync
                    /\ ~Skipped(threads[r][j])
        /\ \A j \in JobIds(r) : threads[r][j].force_sync = orch[r].force_sync

\* a disabled destination picked in the panel was probed and its transfer ran
C8_Witness ==
    \E r \in RunIds : \E j \in JobIds(r) :
        /\ orch[r].via = "sync_destination"
        /\ ~IsNone(orch[r].selected)
        /\ threads[r][j].destination.enabled = "false"
        /\ Called(threads[r][j], "transfer")

\* C9: a job whose probe failed (timeout, non-zero exit, or output that does
\* not end in "/rsync") has ended, with the probe as its last subprocess: no
\* pre command, transfer or post command, and nothing left running.
C9_ProbeFailureEndsJob ==
    \A r \in RunIds : \A j \in JobIds(r) :
        LET job == threads[r][j]
        IN  job.log \cap ProbeFailureLines # {} =>
                /\ Ended(job)
                /\ job.running = {}
                /\ Range(job.calls) \cap {"pre", "transfer", "post"} = {}
                /\ job.calls[Len(job.calls)] = "probe"

\* for a destination with a pre and a post command each of the three probe
\* failures has ended a job
C9_Witness ==
    \E r \in RunIds : \E j \in JobIds(r) :
        /\ threads[r][j].destination.remote_pre_command
        /\ threads[r][j].destination.remote_post_command
        /\ "ERROR: Unable to locate rsync" \in threads[r][j].log
        /\ Ended(threads[r][j])

\* the place of a subprocess in the order of Rsync.run
PhaseIndex(phase) == CHOOSE i \in 1..Len(Phases) : Phases[i] = phase

\* C10: at most one subprocess of a job is running, it is the one invoked
\* last, and the subprocesses a job has invoked are in the order cygpath,
\* probe, pre command, transfer, post command, none twice.
C10_PhasesAreSequential ==
    \A r \in RunIds : \A j \in JobIds(r) :
        LET job == threads[r][j]
        IN  /\ Cardinality(job.running) <= 1
            /\ \A p \in job.running : job.calls[Len(job.calls)] = p /\ job.pc = p
            /\ \A a, b \in 1..Len(job.calls) :
                    a < b => PhaseIndex(job.calls[a]) < PhaseIndex(job.calls[b])
            /\ Ended(job) => job.running = {}

\* a job has run probe, pre command, transfer and post command, and ended
C10_Witness ==
    \E r \in RunIds : \E j \in JobIds(r) :
        /\ threads[r][j].calls = <<"probe", "pre", "transfer", "post">>
        /\ Ended(threads[r][j])

TransferExited(job) == Called(job, "transfer") /\ "transfer" \notin job.running

\* dry-run mode is in effect: an option of the settings or of the destination
\* contains "--dry-run"
DryRunInEffect(job) ==
    \E option \in Range(settings.options) \cup Range(job.destination.options) :
        contains(option, <<"--dry-run">>)

\* C12: a transfer that exited non-zero is reported as the warning only when
\* dry-run mode is in effect (and its output contains "No such file or
\* directory"); every other non-zero exit is reported as a transfer error,
\* never as both.
C12_WarningOnlyInDryRunMode ==
    \A r \in RunIds : \A j \in JobIds(r) :
        LET job == threads[r][j]
        IN  TransferExited(job) =>
                /\ "WARNING: Unable to do dry run" \in job.log => DryRunInEffect(job)
                /\ ~("WARNING: Unable to do dry run" \in job.log /\ "ERROR: rsync" \in job.log)

\* the argument list of the transfer ends in the --rsync-path wrapper
has_wrapper(job) ==
    \E c \in {rsync_command(job)} :
        /\ Len(c) >= 2
        /\ c[Len(c) - 1] = <<"--rsync-path">>
        /\ startswith(c[Len(c)], <<"mkdir -p '">>)

\* C13: the transfer is given the --rsync-path "mkdir -p ..." wrapper exactly
\* when no option of the settings or of the destination contains "--dry-run",
\* whatever the exclude patterns and the source and destination paths are.
C13_WrapperIffNoDryRunOption ==
    \A r \in RunIds : \A j \in JobIds(r) :
        LET job == threads[r][j]
        IN  Called(job, "transfer") => (has_wrapper(job) <=> ~DryRunInEffect(job))

\* the patterns of the --exclude= arguments of a command, one entry per argument
RECURSIVE excludeFlags(_)
excludeFlags(command) ==
    IF Len(command) = 0 THEN <<>>
    ELSE (IF startswith(command[1], <<"--exclude=">>)
          THEN <<SubSeq(command[1], 2, Len(command[1]))>> ELSE <<>>)
         \o excludeFlags(Tail(command))

\* C17: the --exclude= arguments of every transfer command carry exactly the
\* distinct patterns of {".DS_Store"}, the excludes of the settings and the
\* excludes of the destination: each of them once, none twice, no other.
C17_ExcludesAreTheDistinctUnion ==
    \A r \in RunIds : \A j \in JobIds(r) :
        LET job == threads[r][j]
        IN  Called(job, "transfer") =>
                \E flags \in {excludeFlags(rsync_command(job))} :
                    /\ Range(flags) = {DS_Store} \cup Range(settings.excludes)
                                        \cup Range(job.destination.excludes)
                    /\ \A a, b \in 1..Len(flags) : flags[a] = flags[b] => a = b

\* a transfer was invoked for a destination whose exclude pattern is also an
\* exclude of the settings, and the settings differ from the built-in pattern
C17_Witness ==
    \E r \in RunIds : \E j \in JobIds(r) :
        /\ Called(threads[r][j], "transfer")
        /\ Len(settings.excludes) > 0
        /\ settings.excludes = threads[r][j].destination.excludes
        /\ settings.excludes[1] # DS_Store

\* the path segments of a string: the pieces between separators, a slash or
\* the platform's separator, without the empty pieces at either end
RECURSIVE segmentsAcc(_, _, _)
segmentsAcc(seps, s, cur) ==
    IF Len(s) = 0 THEN <<cur>>
    ELSE IF s[1] \in seps THEN <<cur>> \o segmentsAcc(seps, Tail(s), <<>>)
    ELSE segmentsAcc(seps, Tail(s), Append(cur, s[1]))
segments(seps, s) == nonEmpty(segmentsAcc(seps, s, <<>>))

\* the workspace folder's last segment equals the key's first segment
FolderMatchesKey(folder, key) ==
    LET f == segments({os_sep(platform)}, folder)
        k == segments({"/", os_sep(platform)}, key)
    IN  Len(f) > 0 /\ Len(k) > 0 /\ f[Len(f)] = k[1]

\* the absolute path of the folder's segments followed by the key's segments
\* after the first
BoundPath(folder, key) ==
    <<os_sep(platform)>> \o
    join(os_sep(platform),
         segments({os_sep(platform)}, folder)
            \o Tail(segments({"/", os_sep(platform)}, key)))

\* C14: in every run the resolver has bound a remote key if and only if some
\* workspace folder's last path segment equals the key's first segment, and
\* the bound path is such a folder's segments followed by exactly the key's
\* segments after the first.
C14_BoundIffLastSegmentEqualsFirst ==
    \A r \in RunIds :
        orch[r].pc # "idle" =>
            \A key \in DOMAIN remotes :
                /\ key \in DOMAIN orch[r].realRemotePaths
                    <=> \E i \in 1..Len(windowFolders) : FolderMatchesKey(windowFolders[i], key)
                /\ key \in DOMAIN orch[r].realRemotePaths
                    => \E i \in 1..Len(windowFolders) :
                            /\ FolderMatchesKey(windowFolders[i], key)
                            /\ orch[r].realRemotePaths[key] = BoundPath(windowFolders[i], key)

\* the first workspace folder, in workspace-folder order, that matches the key
FirstMatch(key) ==
    windowFolders[CHOOSE i \in 1..Len(windowFolders) :
                    /\ FolderMatchesKey(windowFolders[i], key)
                    /\ \A h \in 1..(i - 1) : ~FolderMatchesKey(windowFolders[h], key)]

\* C15: when several workspace folders match a remote key, the key is bound
\* to the first of them in workspace-folder order: the path a run holds for a
\* bound key is built from the first matching folder.
C15_FirstMatchingFolderWins ==
    \A r \in RunIds :
        orch[r].pc # "idle" =>
            \A key \in DOMAIN orch[r].realRemotePaths :
                orch[r].realRemotePaths[key] = BoundPath(FirstMatch(key), key)

\* a is a segment-wise prefix of b
IsPrefix(a, b) == Len(a) <= Len(b) /\ SubSeq(b, 1, Len(a)) = a

\* the keys whose resolved local root is an ancestor of the path, or the path
ExpectedRemotes(file) ==
    LET resolved == resolveRemotePaths(platform, DOMAIN remotes, windowFolders)
    IN  {k \in DOMAIN resolved :
            IsPrefix(segments({os_sep(platform)}, resolved[k]),
                     segments({os_sep(platform)}, file))}

\* C16: a selection command given one path ends matchFile normally, whatever
\* the path is, and the remotes it offers are exactly the keys whose resolved
\* local root is a segment-wise prefix of the path.
C16_MatchFileIsPrefixMatch ==
    (cmd.identifier = "file" /\ Len(cmd.files) = 1) =>
        /\ ~cmd.raised
        /\ Range(cmd.possibleRemotes) = ExpectedRemotes(cmd.files[1])

\* the keys of the remote mapping that have at least one destination
KeysWithDestinations == {k \in DOMAIN remotes : Len(remotes[k]) > 0}

\* the total number of configured destinations
RECURSIVE TotalDestinations(_)
TotalDestinations(keys) ==
    IF keys = {} THEN 0
    ELSE LET k == CHOOSE x \in keys : TRUE
         IN  Len(remotes[k]) + TotalDestinations(keys \ {k})

\* the jobs of run r for destination i of key k
JobsFor(r, k, i) ==
    {j \in JobIds(r) : threads[r][j].prefix = k /\ threads[r][j].destination = remotes[k][i]}

\* the run has made all its runDestination calls
ExpansionOver(r) == orch[r].pc \in {"join", "done"}

\* a run over all remote keys without a file set, every key with a destination
\* resolved
PlainRunOverAll(r) ==
    /\ orch[r].pc \notin {"idle", "run"}
    /\ IsNone(orch[r].folder)
    /\ IsNone(orch[r].destination)
    /\ orch[r].files = <<>>
    /\ KeysWithDestinations \subseteq DOMAIN orch[r].realRemotePaths

\* C18: a run with no folder, no destination index and no file set, in which
\* every remote key (with a destination) resolves, spawns exactly one job per
\* (remote key, destination) pair: once expanded it has as many jobs as there
\* are configured destinations, and it reports after joining that many.
C18_OneJobPerKeyAndDestination ==
    \A r \in RunIds :
        PlainRunOverAll(r) =>
            /\ orch[r].pc # "raised"
            /\ Len(threads[r]) <= TotalDestinations(DOMAIN remotes)
            /\ \A k \in DOMAIN remotes : \A i \in 1..Len(remotes[k]) :
                    Cardinality(JobsFor(r, k, i)) <= 1
            /\ ExpansionOver(r) =>
                /\ Len(threads[r]) = TotalDestinations(DOMAIN remotes)
                /\ \A k \in DOMAIN remotes : \A i \in 1..Len(remotes[k]) :
                        Cardinality(JobsFor(r, k, i)) = 1
            /\ orch[r].pc = "done" => orch[r].joined = TotalDestinations(DOMAIN remotes)

\* a run over one folder with one destination more than MaxDest has spawned
\* and joined that many jobs and reported
C18_Witness ==
    \E r \in RunIds :
        /\ PlainRunOverAll(r)
        /\ orch[r].pc = "done"
        /\ Len(remotes[Key1]) = MaxDest + 1
        /\ Len(threads[r]) = MaxDest + 1
        /\ orch[r].joined = MaxDest + 1

\* the (remote key, destination) pairs a run expands to: every destination of
\* every key, those of the named folder, or the selected one
ScopePairs(r) ==
    IF IsNone(orch[r].folder)
    THEN UNION {{<<k, remotes[k][i]>> : i \in 1..Len(remotes[k])} : k \in DOMAIN remotes}
    ELSE LET k == The(orch[r].folder)
             selected == mapDestination(orch[r].folder, orch[r].destination)
         IN  IF IsNone(selected) THEN {<<k, remotes[k][i]>> : i \in 1..Len(remotes[k])}
             ELSE {<<k, The(selected)>>}

\* those of a key with a resolved local path
ResolvedScope(r) == {p \in ScopePairs(r) : p[1] \in DOMAIN orch[r].realRemotePaths}

\* the jobs of run r for a pair and the f-th file of the run (the job itself
\* rewrites the separators of its path on Windows)
JobsForFile(r, p, f) ==
    {j \in JobIds(r) : /\ threads[r][j].prefix = p[1]
                       /\ threads[r][j].destination = p[2]
                       /\ ~IsNone(threads[r][j].specific_path)
                       /\ slashed(The(threads[r][j].specific_path))
                            = slashed(orch[r].files[f])}

\* C19: a run with a non-empty file set, once its thread has ended, has
\* spawned exactly one job per (file, destination) pair, for every file of
\* the set and every destination of a resolved key it expands to, and no
\* other job; for a named folder without destinations it has spawned no job
\* and ended by reporting.
C19_OneJobPerFileAndDestination ==
    \A r \in RunIds :
        (RunThreadEnded(r) /\ orch[r].files # <<>>) =>
            /\ \A p \in ResolvedScope(r) : \A f \in 1..Len(orch[r].files) :
                    Cardinality(JobsForFile(r, p, f)) = 1
            /\ Len(threads[r]) = Len(orch[r].files) * Cardinality(ResolvedScope(r))
            /\ (~IsNone(orch[r].folder) /\ Len(remotes[The(orch[r].folder)]) = 0)
                    => (orch[r].pc = "done" /\ Len(threads[r]) = 0)

\* C20: a run that expanded to zero jobs reports without joining anything and
\* without a destination count in its message, also while another run on the
\* view is in progress, and its report leaves the status marker as it was.
C20_ZeroJobRunLeavesMarker ==
    [][\A r \in RunIds :
        (orch[r].pc = "join" /\ orch'[r].pc = "done" /\ Len(threads[r]) = 0) =>
            /\ orch'[r].joined = 0
            /\ orch'[r].reported = Some(0)
            /\ status' = status]_vars

\* some job of some run on the view has not reached a terminal state
SomeJobUnfinished == \E r \in RunIds : \E j \in JobIds(r) : ~Ended(threads[r][j])

\* C21: whenever a job spawned by any run on the view has not ended, the
\* view's status marker is non-empty, also when two runs were started on the
\* view and interleave in any way.
C21_MarkerSetWhileJobsRun == SomeJobUnfinished => status # 0

\* the job has passed the head of Rsync.run: its paths are the ones it syncs
PathsSettled(job) == job.pc \notin {"start", "cygpath"} /\ ~CygpathFailed(job)

\* what a job writes to: the destination and the path on it, and from where
Target(job) == <<source_path(job), job.destination, destination_path(job)>>

\* C22: no two jobs of one run have the same local source path and the same
\* destination: the jobs of a run write to pairwise distinct remote targets,
\* also when paths of the file set lie outside the local root or do not exist.
C22_TargetsAreDistinct ==
    \A r \in RunIds : \A j, k \in JobIds(r) :
        (j # k /\ PathsSettled(threads[r][j]) /\ PathsSettled(threads[r][k]))
            => Target(threads[r][j]) # Target(threads[r][k])

\* the path is strictly below the root: the root's segments are a proper
\* prefix of the path's segments
StrictlyBelow(p, root) ==
    /\ IsPrefix(segments({"/"}, root), segments({"/"}, p))
    /\ Len(segments({"/"}, root)) < Len(segments({"/"}, p))

\* the path relative to the root, with a leading slash
Relative(p, root) ==
    <<"/">> \o join("/", SubSeq(segments({"/"}, p), Len(segments({"/"}, root)) + 1,
                                 Len(segments({"/"}, p))))

\* the job's specific path is an existing file or directory strictly below
\* its local root
NarrowingCase(job) ==
    /\ ~IsNone(job.specific_path)
    /\ isfile(The(job.specific_path)) \/ isdir(The(job.specific_path))
    /\ StrictlyBelow(The(job.specific_path), job.local_path)

\* C23: a job syncs its specific path to remote_path plus the path relative to
\* the local root if and only if the path is an existing file or directory
\* strictly below the local root; in every other case it syncs the whole local
\* root (with a trailing separator) to remote_path.
C23_NarrowsIffExistingBelowRoot ==
    \A r \in RunIds : \A j \in JobIds(r) :
        LET job == threads[r][j]
        IN  PathsSettled(job) =>
                IF NarrowingCase(job)
                THEN /\ source_path(job) \in {The(job.specific_path),
                                              The(job.specific_path) \o <<"/">>}
                     /\ source_path(job) = The(job.specific_path)
                            <=> isfile(The(job.specific_path))
                     /\ destination_path(job) =
                            job.destination.remote_path
                                \o Relative(The(job.specific_path), job.local_path)
                ELSE /\ source_path(job) = job.local_path \o <<"/">>
                     /\ destination_path(job) = job.destination.remote_path

\* the run was given a destination index but no folder
IndexWithoutFolder(r) ==
    orch[r].pc # "idle" /\ IsNone(orch[r].folder) /\ ~IsNone(orch[r].destination)

\* the jobs a run owes to one destination: one, or one per file of its list
JobsPerDestination(r) == IF orch[r].files = <<>> THEN 1 ELSE Len(orch[r].files)

\* how often a runDestination call is still to be made by the loops of a run
RECURSIVE Occurrences(_, _)
Occurrences(todo, call) ==
    IF Len(todo) = 0 THEN 0
    ELSE (IF todo[1] = call THEN 1 ELSE 0) + Occurrences(Tail(todo), call)

\* C24: a run never iterates all folders while holding one selected
\* destination: a run given a destination index but no folder discards the
\* index, and its loops go over every destination of every remote key, once
\* each; when the loops are over every one of them has got its jobs.
C24_IndexWithoutFolderIsDiscarded ==
    \A r \in RunIds :
        /\ IsNone(orch[r].folder) => IsNone(orch[r].selected)
        /\ (IndexWithoutFolder(r) /\ orch[r].pc # "run") =>
            /\ \A k \in DOMAIN remotes : \A i \in 1..Len(remotes[k]) :
                    Occurrences(orch[r].todo, <<k, remotes[k][i]>>) * JobsPerDestination(r)
                        + Cardinality(JobsFor(r, k, i)) = JobsPerDestination(r)
            /\ ExpansionOver(r) =>
                    Len(threads[r]) = TotalDestinations(DOMAIN remotes) * JobsPerDestination(r)

\* a run given index 1 and no folder, over two destinations of one key, has
\* spawned a job for each of them and reported
C24_Witness ==
    \E r \in RunIds :
        /\ IndexWithoutFolder(r)
        /\ orch[r].pc = "done"
        /\ Len(remotes[Key1]) = 2
        /\ Len(threads[r]) = 2
        /\ threads[r][1].destination # threads[r][2].destination

\* the run was given a folder and a destination index, and has mapped it
IndexWithFolder(r) ==
    /\ orch[r].pc \notin {"idle", "run"}
    /\ ~IsNone(orch[r].folder)
    /\ ~IsNone(orch[r].destination)

\* C25: for a named folder with n destinations, an index outside 1..n (zero,
\* negative, greater than n) selects nothing and the loops of the run go over
\* all n destinations of the folder, once each; an index in 1..n selects the
\* destination at that place, index n the last one; what is selected is always
\* an entry of the folder's list.
C25_IndexOutOfRangeExpandsAll ==
    \A r \in RunIds :
        IndexWithFolder(r) =>
            LET k == The(orch[r].folder)
                n == Len(remotes[k])
                d == The(orch[r].destination)
            IN  /\ d \notin 1..n =>
                    /\ IsNone(orch[r].selected)
                    /\ \A i \in 1..n :
                        Occurrences(orch[r].todo, <<k, remotes[k][i]>>) * JobsPerDestination(r)
                            + Cardinality(JobsFor(r, k, i)) = JobsPerDestination(r)
                    /\ ExpansionOver(r) => Len(threads[r]) = n * JobsPerDestination(r)
                /\ d \in 1..n =>
                    /\ orch[r].selected = Some(remotes[k][d])
                    /\ \A j \in JobIds(r) : threads[r][j].destination = remotes[k][d]
                    /\ ExpansionOver(r) => Len(threads[r]) = JobsPerDestination(r)
                /\ ~IsNone(orch[r].selected) => The(orch[r].selected) \in Range(remotes[k])

\* a run for a folder with two destinations and an index beyond them has
\* spawned a job for each of the two and reported
C25_Witness ==
    \E r \in RunIds :
        /\ IndexWithFolder(r)
        /\ Len(remotes[The(orch[r].folder)]) = 2
        /\ The(orch[r].destination) > 2
        /\ orch[r].pc = "done"
        /\ Len(threads[r]) = 2

\* the number of destinations of the remote key chosen in the panel of remotes
ChosenCount == Len(remotes[The(cmd.selectedRemoteKey)])

\* no sync has been started
NoSyncStarted == \A r \in RunIds : orch[r].pc = "idle"

\* what holds in every state once a remote key has been chosen
AfterRemoteChoice ==
    /\ (~IsNone(cmd.selectedRemoteKey) /\ ChosenCount = 0)
            => (NoSyncStarted /\ panel = NoPanel)
    /\ (~IsNone(cmd.selectedRemoteKey) /\ ChosenCount = 1 /\ ~cmd.ignoreObviousRemoteChoice)
            => (panel = NoPanel /\ \E r \in RunIds : orch[r].via = "sync_remote")
    /\ \A r \in RunIds :
        orch[r].via = "sync_remote" =>
            /\ orch[r].folder = cmd.selectedRemoteKey
            /\ ChosenCount = 1 /\ ~cmd.ignoreObviousRemoteChoice
            /\ orch[r].force_sync
            /\ IsNone(orch[r].destination)
            /\ orch[r].files = <<>>
    /\ panel.kind = "destination" =>
            /\ NoSyncStarted
            /\ ChosenCount >= 1
            /\ ChosenCount = 1 => cmd.ignoreObviousRemoteChoice
            /\ panel.selected \in 0..ChosenCount
    /\ \A r \in RunIds :
        orch[r].via = "sync_destination" =>
            /\ ~IsNone(orch[r].destination)
            /\ The(orch[r].destination) \in 0..ChosenCount
            /\ ~(ChosenCount = 1 /\ ~cmd.ignoreObviousRemoteChoice)

\* a step of the panel of remotes that chooses no key, and every step of the
\* panel of destinations that starts no sync, stores nothing; a sync started
\* from the panel of destinations is one for the stored row, which is not
\* negative
CancelledChoice ==
    /\ (panel.kind = "remote" /\ panel' # panel /\ IsNone(cmd'.selectedRemoteKey))
            => (orch' = orch /\ viewSettings' = viewSettings /\ status' = status)
    /\ (panel.kind = "remote" /\ ~IsNone(cmd'.selectedRemoteKey))
            => /\ ~IsNone(viewSettings'.remote)
               /\ The(viewSettings'.remote) \in 0..(Len(cmd.possibleRemotes) - 1)
               /\ cmd'.selectedRemoteKey = Some(cmd.possibleRemotes[The(viewSettings'.remote) + 1])
               /\ viewSettings'.destination = viewSettings.destination
    /\ (panel.kind = "destination" /\ panel' # panel)
            => \/ orch' = orch /\ viewSettings' = viewSettings /\ status' = status
               \/ \E r \in RunIds :
                    /\ orch[r].pc = "idle"
                    /\ orch'[r].via = "sync_destination"
                    /\ ~IsNone(orch'[r].destination)
                    /\ The(orch'[r].destination) >= 0
                    /\ viewSettings'.destination = orch'[r].destination
                    /\ viewSettings'.remote = viewSettings.remote

\* C26: after a remote key is chosen, no sync is started for a key without
\* destinations; a key with exactly one destination is synced directly, forced
\* and without destination index or files, when the obvious choice is not
\* ignored; otherwise no sync is started before a destination is chosen, and
\* the panel of destinations opens on a row in 0..(number of destinations).  A
\* cancelled choice in either panel starts no sync and stores no selection.
C26_PanelChoicesStartSyncs == []AfterRemoteChoice /\ [][CancelledChoice]_vars

\* the panel of destinations of a key is open on its last row, the remembered
\* row lying beyond the key's destinations
C26_Witness ==
    /\ panel.kind = "destination"
    /\ ~IsNone(viewSettings.destination)
    /\ The(viewSettings.destination) > ChosenCount
    /\ panel.selected = ChosenCount

====
